---- MODULE Spec2Model ----
(***************************************************************************)
(* A model of vit.py: the Vision Transformer classifier.                   *)
(*                                                                         *)
(* A tensor is a record [ok, shape, data]: shape is the sequence of its    *)
(* dimension sizes and data the sequence of its elements in logical        *)
(* row-major order.  A failed tensor operation (the RuntimeError the       *)
(* tensor library raises on a shape mismatch) is the tensor Failed.        *)
(* Indices are 0-based as in the source; sequences are 1-based.            *)
(***************************************************************************)
EXTENDS Integers, Sequences, FiniteSets, TLC

\* ------------------------------------------------------------------ bounds
MaxBatch == 2
MaxCh == 2
MaxSide == 4
MaxPatch == 2
MaxTokens == 3
MaxImg == 3
MaxClasses == 2
MaxDim == 2
MaxHeads == 2
MaxDepth == 2
MaxCalls == 2
MaxAttnDim == 4
MaxAttnHeads == 3

\* ------------------------------------------------------- tensor primitives
RECURSIVE Prod(_)
Prod(s) == IF s = <<>> THEN 1 ELSE Head(s) * Prod(Tail(s))

\* Flat row-major offset (0-based) of the 0-based index tuple idx.
RECURSIVE Ravel(_, _)
Ravel(idx, shape) ==
    IF idx = <<>> THEN 0
    ELSE Head(idx) * Prod(Tail(shape)) + Ravel(Tail(idx), Tail(shape))

\* The 0-based index tuple at flat row-major offset f.
RECURSIVE Unravel(_, _)
Unravel(f, shape) ==
    IF shape = <<>> THEN <<>>
    ELSE <<f \div Prod(Tail(shape))>> \o Unravel(f % Prod(Tail(shape)), Tail(shape))

Failed == [ok |-> FALSE, shape |-> <<>>, data |-> <<>>]

Tensor(shape, data) == [ok |-> TRUE, shape |-> shape, data |-> data]

\* A contiguous tensor whose element at flat offset f is the label f.
Labelled(shape) == Tensor(shape, [f \in 1..Prod(shape) |-> f - 1])

\* Tensor.unfold(dim, size, step): every slice of length size along dim, at
\* stride step; the slice's elements go to a new last dimension.
Unfold(t, dim, size, step) ==
    IF ~t.ok THEN Failed
    ELSE LET r == Len(t.shape)
             d == dim + 1
         IN  IF t.shape[d] < size THEN Failed
             ELSE LET n == (t.shape[d] - size) \div step + 1
                      ns == [k \in 1..(r + 1) |->
                                IF k = d THEN n
                                ELSE IF k = r + 1 THEN size ELSE t.shape[k]]
                      src(idx) == [k \in 1..r |->
                                      IF k = d THEN idx[d] * step + idx[r + 1]
                                      ELSE idx[k]]
                  IN  Tensor(ns, [f \in 1..Prod(ns) |->
                                    t.data[Ravel(src(Unravel(f - 1, ns)), t.shape) + 1]])

\* Tensor.reshape(target): the same elements in the same row-major order; one
\* entry of target may be -1 and is inferred.
Reshape(t, target) ==
    IF ~t.ok THEN Failed
    ELSE LET numel == Prod(t.shape)
             holes == {k \in 1..Len(target) : target[k] = -1}
             known == Prod([k \in 1..Len(target) |->
                              IF target[k] = -1 THEN 1 ELSE target[k]])
         IN  IF holes = {}
             THEN IF known = numel THEN Tensor(target, t.data) ELSE Failed
             ELSE IF Cardinality(holes) > 1 \/ known = 0 \/ numel % known # 0
                  THEN Failed
                  ELSE Tensor([k \in 1..Len(target) |->
                                 IF target[k] = -1 THEN numel \div known
                                 ELSE target[k]], t.data)

\* ------------------------------------------------------------- ImgPatches
\* Mutant: the flattened patch dimension forgets the channel count.
ImgPatchesNoChannels(patch_size, img) ==
    LET b == img.shape[1]
        patches == Unfold(Unfold(img, 2, patch_size, patch_size),
                          3, patch_size, patch_size)
    IN  Reshape(patches, <<b, -1, patch_size * patch_size>>)

ImgPatchesForward(patch_size, img) ==
    LET b == img.shape[1]
        c == img.shape[2]
        patches == Unfold(Unfold(img, 2, patch_size, patch_size),
                          3, patch_size, patch_size)
    IN  Reshape(patches, <<b, -1, c * patch_size * patch_size>>)

\* ------------------------------------------------- the computation's tape
\* A forward computation is a tape: the sequence of the tensors computed so far,
\* each an entry [op, p, ver, at, args, shape, base, data]: the operation that
\* made it, the parameter it read (name and content version), the index it was
\* sliced at (-1: not a slice), the tape positions of its tensor operands, its shape, the storage it lives in ("tmp": its own fresh
\* storage; otherwise a view of that parameter or of the caller's image) and,
\* where the elements are tracked, its data.  A computation [ok, tape, printed]
\* has failed when ok is FALSE; printed counts the lines written to stdout.
NoParam == <<"-">>

Entry(op, p, ver, at, args, shape, base, data) ==
    [op |-> op, p |-> p, ver |-> ver, at |-> at, args |-> args, shape |-> shape,
     base |-> base, data |-> data]

Start == [ok |-> TRUE, tape |-> <<>>, printed |-> 0]

Top(t) == Len(t.tape)

\* The positions of the entries made by operation op.
Made(t, op) == {i \in 1..Top(t) : t.tape[i].op = op}

\* A position on the tape: as given when positive, counted from the top when
\* negative (-1: the top).
At(t, p) == IF p < 0 THEN Top(t) + 1 + p ELSE p

ShapeAt(t, i) == t.tape[At(t, i)].shape

Raise(t) == [t EXCEPT !.ok = FALSE]

Push(t, e) == [t EXCEPT !.tape = Append(t.tape, e)]

\* A fresh tensor computed from the entries args.
Fresh(t, op, p, ver, args, shape) ==
    Push(t, Entry(op, p, ver, -1, args, shape, "tmp", <<>>))

Last(s) == s[Len(s)]

SetLast(s, v) == [s EXCEPT ![Len(s)] = v]

\* A dimension given as in the source (0-based, negative from the end) as a
\* 1-based position.
Dim(s, d) == IF d < 0 THEN Len(s) + d + 1 ELSE d + 1

\* ------------------------------------------------------------ torch.nn layers
\* nn.Linear(in_features, out_features): a module owning its weight.
Linear(name, in_features, out_features, bias) ==
    [name |-> name, in_features |-> in_features, out_features |-> out_features,
     bias |-> bias, ver |-> 0]

\* Where the elements of the input are tracked, what each row of the output was
\* computed from: row r of a linear layer's output is a function of row r of its
\* input alone.
Rows(name, data, width) ==
    IF Len(data) = 0 \/ width = 0 THEN <<>>
    ELSE [r \in 1..(Len(data) \div width) |->
            [src |-> name, vec |-> SubSeq(data, (r - 1) * width + 1, r * width)]]

\* nn.Linear.forward: the last dimension must be in_features.
LinearForward(self, t, i) ==
    IF ~t.ok THEN t
    ELSE IF ShapeAt(t, i) = <<>> \/ Last(ShapeAt(t, i)) # self.in_features THEN Raise(t)
    ELSE Push(t, Entry("linear", self.name, self.ver, -1, <<At(t, i)>>,
                       SetLast(ShapeAt(t, i), self.out_features), "tmp",
                       Rows(self.name, t.tape[At(t, i)].data, self.in_features)))

\* nn.LayerNorm(dim).
LayerNorm(name, dim) == [name |-> name, dim |-> dim, ver |-> 0]

LayerNormForward(self, t, i) ==
    IF ~t.ok THEN t
    ELSE IF ShapeAt(t, i) = <<>> \/ Last(ShapeAt(t, i)) # self.dim THEN Raise(t)
    ELSE Fresh(t, "layer_norm", self.name, self.ver, <<At(t, i)>>, ShapeAt(t, i))

\* nn.Dropout(p).forward: with p = 0 the result is the input itself.
DropoutForward(p, t, i) ==
    IF ~t.ok THEN t
    ELSE Push(t, Entry("dropout", NoParam, p, -1, <<At(t, i)>>, ShapeAt(t, i),
                       IF p = 0 THEN t.tape[At(t, i)].base ELSE "tmp", <<>>))

\* An elementwise function of one tensor (GELU, softmax, a scalar multiple).
Elementwise(op, t, i) ==
    IF ~t.ok THEN t ELSE Fresh(t, op, NoParam, 0, <<At(t, i)>>, ShapeAt(t, i))

\* Tensor.reshape on the tape.
ReshapeForward(t, i, target) ==
    IF ~t.ok THEN t
    ELSE LET r == Reshape(Tensor(ShapeAt(t, i), <<>>), target)
         IN  IF ~r.ok THEN Raise(t)
             ELSE Fresh(t, "reshape", NoParam, 0, <<At(t, i)>>, r.shape)

\* Tensor.permute(dims): dimension k of the result is dimension dims[k].
PermuteForward(t, i, dims) ==
    IF ~t.ok THEN t
    ELSE LET s == ShapeAt(t, i)
         IN  IF Len(dims) # Len(s) \/ {dims[k] : k \in 1..Len(dims)} # 0..(Len(s) - 1)
             THEN Raise(t)
             ELSE Fresh(t, "permute", NoParam, 0, <<At(t, i)>>,
                        [k \in 1..Len(s) |-> s[dims[k] + 1]])

\* Tensor.transpose(d0, d1).
TransposeForward(t, i, d0, d1) ==
    IF ~t.ok THEN t
    ELSE LET s == ShapeAt(t, i)
             a == Dim(s, d0)
             b == Dim(s, d1)
         IN  IF ~(a \in 1..Len(s) /\ b \in 1..Len(s)) THEN Raise(t)
             ELSE Fresh(t, "transpose", NoParam, 0, <<At(t, i)>>,
                        [k \in 1..Len(s) |-> IF k = a THEN s[b]
                                             ELSE IF k = b THEN s[a] ELSE s[k]])

\* Unpacking a tensor into n names: its slices along dimension 0, which must
\* have size n.  The slices are the n entries pushed, in order.
RECURSIVE PushSlices(_, _, _, _)
PushSlices(t, i, k, n) ==
    IF k = n THEN t
    ELSE PushSlices(Push(t, Entry("unbind", NoParam, 0, k, <<At(t, i)>>, Tail(ShapeAt(t, i)),
                                  t.tape[At(t, i)].base, <<>>)),
                    i, k + 1, n)

UnpackForward(t, i, n) ==
    IF ~t.ok THEN t
    ELSE IF ShapeAt(t, i) = <<>> \/ Head(ShapeAt(t, i)) # n THEN Raise(t)
    ELSE PushSlices(t, At(t, i), 0, n)

\* a @ b for tensors of equal rank >= 2 and equal leading dimensions.
MatMulForward(t, i, j) ==
    IF ~t.ok THEN t
    ELSE LET a == ShapeAt(t, i)
             b == ShapeAt(t, j)
             r == Len(a)
         IN  IF r < 2 \/ Len(b) # r
                  \/ SubSeq(a, 1, r - 2) # SubSeq(b, 1, r - 2)
                  \/ a[r] # b[r - 1]
             THEN Raise(t)
             ELSE Fresh(t, "matmul", NoParam, 0, <<At(t, i), At(t, j)>>, SetLast(a, b[r]))

\* a + b for tensors of the same shape.
AddForward(t, i, j) ==
    IF ~t.ok THEN t
    ELSE IF ShapeAt(t, i) # ShapeAt(t, j) THEN Raise(t)
    ELSE Fresh(t, "add", NoParam, 0, <<At(t, i), At(t, j)>>, ShapeAt(t, i))

\* print(...): one line on stdout.
PrintLine(t) == IF ~t.ok THEN t ELSE [t EXCEPT !.printed = @ + 1]

\* ------------------------------------------------------------------- masks
NoMask == "None"

Masks == {NoMask, "mask"}

\* ---------------------------------------------------------------------- MLP
MLPInit(name, in_features, hidden_features, out_features, dropout) ==
    LET hidden == IF hidden_features = 0 THEN in_features ELSE hidden_features
        out == IF out_features = 0 THEN in_features ELSE out_features
    IN  [fc1 |-> Linear(name \o <<"fc1">>, in_features, hidden, TRUE),
         fc2 |-> Linear(name \o <<"fc2">>, hidden, out, TRUE),
         dropout |-> dropout]

\* MLP.forward of the tensor on top of the tape.
MLPForward(self, t) ==
    LET x1 == LinearForward(self.fc1, t, -1)
        x2 == Elementwise("gelu", x1, -1)
        x3 == LinearForward(self.fc2, x2, -1)
    IN  DropoutForward(self.dropout, x3, -1)

\* ---------------------------------------------------------------- Attention
AttentionInit(name, dim, num_heads, attn_dropout, proj_dropout) ==
    [num_heads |-> num_heads,
     scale |-> dim,
     qkv |-> Linear(name \o <<"qkv">>, dim, dim * 3, FALSE),
     attn_dropout |-> attn_dropout,
     out |-> Linear(name \o <<"out">>, dim, dim, TRUE),
     proj_dropout |-> proj_dropout]

\* dot * self.scale, the scale 1/sqrt(dim) kept as the dim it was computed from.
ScaleForward(scale, t, i) ==
    IF ~t.ok THEN t
    ELSE Fresh(t, "mul", <<"1/sqrt">>, scale, <<At(t, i)>>, ShapeAt(t, i))

\* Mutant: the heads are not moved in front of the tokens.
QkvPermutationTokensFirst == <<2, 0, 1, 3, 4>>

QkvPermutation == <<2, 0, 3, 1, 4>>

\* Mutant: a non-null mask is applied to the scores.
AttentionMaskApplied(t, i, mask) ==
    IF ~t.ok \/ mask = NoMask THEN t
    ELSE Fresh(PrintLine(t), "masked_fill", <<mask>>, 0, <<At(t, i)>>, ShapeAt(t, i))

\* The TO-DO of Attention.forward: a non-null mask prints a notice.
AttentionMask(t, i, mask) ==
    IF mask # NoMask THEN PrintLine(t) ELSE t

\* Attention.forward of the tensor on top of the tape.  After the unpacking q, k
\* and v are the three entries on top, v topmost; every statement after it pushes
\* one entry, the mask test none.
AttentionForward(self, t, mask) ==
    IF ~t.ok THEN t
    ELSE IF Len(ShapeAt(t, -1)) # 3 THEN Raise(t)
    ELSE
    LET b == ShapeAt(t, -1)[1]
        n == ShapeAt(t, -1)[2]
        c == ShapeAt(t, -1)[3]
        lin == LinearForward(self.qkv, t, -1)
        qkv == ReshapeForward(lin, -1,
                              <<b, n, 3, self.num_heads, c \div self.num_heads>>)
        perm == PermuteForward(qkv, -1, QkvPermutation)
        qkv3 == UnpackForward(perm, -1, 3)
        kT == TransposeForward(qkv3, -2, -2, -1)
        qk == MatMulForward(kT, -4, -1)
        dot == ScaleForward(self.scale, qk, -1)
        noted == AttentionMask(dot, -1, mask)
        soft == Elementwise("softmax", noted, -1)
        attn_ == DropoutForward(self.attn_dropout, soft, -1)
        av == MatMulForward(attn_, -1, -6)
        avT == TransposeForward(av, -1, 1, 2)
        x == ReshapeForward(avT, -1, <<b, n, c>>)
        proj == LinearForward(self.out, x, -1)
    IN  DropoutForward(self.proj_dropout, proj, -1)

\* A tape holding only the input tensor of a call.
Input(shape) ==
    Push(Start, Entry("input", NoParam, 0, -1, <<>>, shape, "tmp", <<>>))

\* -------------------------------------------------------------------- Block
BlockInit(name, dim, num_heads, mlp_ratio, drop_rate) ==
    [ln1 |-> LayerNorm(name \o <<"ln1">>, dim),
     attn |-> AttentionInit(name \o <<"attn">>, dim, num_heads, drop_rate, drop_rate),
     ln2 |-> LayerNorm(name \o <<"ln2">>, dim),
     mlp |-> MLPInit(name \o <<"mlp">>, dim, dim * mlp_ratio, 0, drop_rate)]

\* Block.forward of the tensor on top of the tape.
BlockForward(self, t, mask) ==
    LET x1 == LayerNormForward(self.ln1, t, -1)
        a == AttentionForward(self.attn, x1, mask)
        x == AddForward(a, Top(t), -1)
        x2 == LayerNormForward(self.ln2, x, -1)
        m == MLPForward(self.mlp, x2)
    IN  AddForward(m, Top(x), -1)

\* -------------------------------------------------------------- Transformer
TransformerInit(depth, dim, num_heads, mlp_ratio, drop_rate) ==
    [blocks |-> [k \in 1..depth |->
                    BlockInit(<<"blocks", k - 1>>, dim, num_heads, mlp_ratio, drop_rate)]]

\* Mutant: the blocks are visited last to first.
BlockOrderReversed(self) ==
    [k \in 1..Len(self.blocks) |-> Len(self.blocks) + 1 - k]

\* for block in self.blocks: the k-th iteration's block.
BlockOrder(self) == [k \in 1..Len(self.blocks) |-> k]

\* The loop of Transformer.forward from its iteration k + 1 on.
RECURSIVE TransformerFrom(_, _, _, _)
TransformerFrom(self, t, k, mask) ==
    IF k = Len(self.blocks) THEN t
    ELSE TransformerFrom(self,
                         BlockForward(self.blocks[BlockOrder(self)[k + 1]], t, mask),
                         k + 1, mask)

TransformerForward(self, t, mask) == TransformerFrom(self, t, 0, mask)

\* ---------------------------------------------------------------------- ViT
MlpRatio == 4

\* nn.Parameter(torch.zeros(shape)).
Parameter(name, shape) == [name |-> name, shape |-> shape, ver |-> 0]

NoModel == [exists |-> FALSE]

\* Mutant: the operands of the divisibility test are swapped.
SizeMismatchSwapped(img_size, patch_size) == patch_size % img_size # 0

SizeMismatch(img_size, patch_size) == img_size % patch_size # 0

\* ViT.__init__: [ok, err, obj]; obj is the constructed module.
ViTInit(a) ==
    IF a.patch_size = 0
    THEN [ok |-> FALSE, err |-> "ZeroDivisionError", obj |-> NoModel]
    ELSE IF SizeMismatch(a.img_size, a.patch_size)
    THEN [ok |-> FALSE, err |-> "ValueError", obj |-> NoModel]
    ELSE
    LET num_patches == (a.img_size \div a.patch_size) * (a.img_size \div a.patch_size)
        patch_dim == a.in_ch * a.patch_size * a.patch_size
    IN  [ok |-> TRUE, err |-> "",
         obj |-> [exists |-> TRUE,
                  patch_size |-> a.patch_size,
                  patches |-> [patch_size |-> a.patch_size],
                  patch_embed |-> Linear(<<"patch_embed">>, patch_dim, a.embed_dim, TRUE),
                  pos_emb |-> Parameter(<<"pos_emb">>, <<1, num_patches + 1, a.embed_dim>>),
                  cls_emb |-> Parameter(<<"cls_emb">>, <<1, 1, a.embed_dim>>),
                  transfomer |-> TransformerInit(a.depth, a.embed_dim, a.num_heads,
                                                 a.mlp_ratio, a.drop_rate),
                  norm |-> LayerNorm(<<"norm">>, a.embed_dim),
                  use_mlp |-> a.use_mlp,
                  out |-> IF a.use_mlp
                          THEN MLPInit(<<"out">>, a.embed_dim, a.embed_dim * a.mlp_ratio,
                                       a.num_classes, 0)
                          ELSE Linear(<<"out">>, a.embed_dim, a.num_classes, TRUE)]]

\* The caller's image tensor: its shape and the version of its content.
Image(shape) == [shape |-> shape, ver |-> 0]

\* Parameter.expand(b, -1, -1): a view of the parameter, its first dimension
\* (of size 1) repeated b times.  Every row is the parameter's row.
ExpandForward(param, t, b) ==
    IF ~t.ok THEN t
    ELSE IF Len(param.shape) # 3 \/ param.shape[1] # 1 THEN Raise(t)
    ELSE Push(t, Entry("expand", param.name, param.ver, -1, <<>>,
                       <<b, param.shape[2], param.shape[3]>>, param.name[1],
                       [r \in 1..(b * param.shape[2]) |->
                           [src |-> param.name, vec |-> <<>>]]))

\* self.patches(x) on the tape: the patches of the image at position i, with
\* their elements.
PatchesForward(self, t, i) ==
    IF ~t.ok THEN t
    ELSE LET r == ImgPatchesForward(self.patch_size, Labelled(ShapeAt(t, i)))
         IN  IF ~r.ok THEN Raise(t)
             ELSE Push(t, Entry("patches", NoParam, t.tape[At(t, i)].ver, -1, <<At(t, i)>>,
                                r.shape, "tmp", r.data))

\* torch.cat((a, b), dim=1) of two rank-3 tensors: for every batch item the rows
\* of a, then the rows of b.
CatForward(t, i, j) ==
    IF ~t.ok THEN t
    ELSE LET a == ShapeAt(t, i)
             b == ShapeAt(t, j)
         IN  IF Len(a) # 3 \/ Len(b) # 3 \/ a[1] # b[1] \/ a[3] # b[3] THEN Raise(t)
             ELSE LET n == a[2] + b[2]
                      da == t.tape[At(t, i)].data
                      db == t.tape[At(t, j)].data
                  IN  Push(t, Entry("cat", NoParam, 0, -1, <<At(t, i), At(t, j)>>,
                                    <<a[1], n, a[3]>>, "tmp",
                                    [r \in 1..(a[1] * n) |->
                                        LET bi == (r - 1) \div n
                                            k == (r - 1) % n
                                        IN  IF k < a[2] THEN da[bi * a[2] + k + 1]
                                            ELSE db[bi * b[2] + (k - a[2]) + 1]]))

\* Whether a tensor of shape p broadcasts to shape s.
Broadcasts(p, s) ==
    /\ Len(p) <= Len(s)
    /\ \A k \in 1..Len(p) :
          p[k] = s[Len(s) - Len(p) + k] \/ p[k] = 1

\* Mutant: the sum is stored into the parameter.
IAddTargetParam(t, i, param) == param.name[1]

\* The storage x += param writes: that of x.
IAddTarget(t, i, param) == t.tape[At(t, i)].base

\* x += param: the sum is written to the storage of x, whose shape the parameter
\* must broadcast to.
IAddForward(t, i, param) ==
    IF ~t.ok THEN t
    ELSE IF ~Broadcasts(param.shape, ShapeAt(t, i)) THEN Raise(t)
    ELSE Push(t, Entry("iadd", param.name, param.ver, -1, <<At(t, i)>>, ShapeAt(t, i),
                       IAddTarget(t, i, param), t.tape[At(t, i)].data))

\* x[:, index]: the row at index of every batch item.
SelectForward(t, i, index) ==
    IF ~t.ok THEN t
    ELSE LET s == ShapeAt(t, i)
         IN  IF Len(s) < 2 \/ index >= s[2] THEN Raise(t)
             ELSE Push(t, Entry("select", NoParam, 0, index, <<At(t, i)>>,
                                <<s[1]>> \o SubSeq(s, 3, Len(s)),
                                t.tape[At(t, i)].base, <<>>))

\* ViT.forward, statement by statement.  The image is at position 1 of the tape
\* and cls_token at position 2; from line 130 on x is the top of the tape.
\* Lines 126-128.
ForwardEnter(self, image) ==
    LET t == Push(Start, Entry("input", NoParam, image.ver, -1, <<>>,
                               image.shape, "img", <<>>))
        b == image.shape[1]
    IN  ExpandForward(self.cls_emb, t, b)

\* Line 130.
ForwardEmbed(self, t) ==
    LET p == PatchesForward(self.patches, t, 1)
    IN  LinearForward(self.patch_embed, p, -1)

\* Mutant: the class token is appended after the patches.
ForwardCatPatchesFirst(t) == CatForward(t, -1, 2)

\* Line 131.
ForwardCat(t) == CatForward(t, 2, -1)

\* Line 132.
ForwardPos(self, t) == IAddForward(t, -1, self.pos_emb)

\* Line 135.
ForwardNorm(self, t) ==
    LET x0 == SelectForward(t, -1, 0)
    IN  LayerNormForward(self.norm, x0, -1)

\* Line 136: self.out is an MLP or a single nn.Linear.
ForwardHead(self, t) ==
    IF self.use_mlp THEN MLPForward(self.out, t)
    ELSE LinearForward(self.out, t, -1)

\* ViT.forward as a function of the module, the image and the mask.
ViTForward(self, image, mask) ==
    LET t0 == ForwardEnter(self, image)
        t1 == ForwardEmbed(self, t0)
        t2 == ForwardCat(t1)
        t3 == ForwardPos(self, t2)
        t4 == TransformerForward(self.transfomer, t3, mask)
        t5 == ForwardNorm(self, t4)
    IN  ForwardHead(self, t5)

\* What an in-place write to storage base does to the module and to the image.
WriteModel(self, base) ==
    IF base = "pos_emb" THEN [self EXCEPT !.pos_emb.ver = @ + 1]
    ELSE IF base = "cls_emb" THEN [self EXCEPT !.cls_emb.ver = @ + 1]
    ELSE self

\* The storage the statement that pushed the top of the tape wrote in place.
Written(t) == t.tape[Top(t)].base

WriteImage(image, base) ==
    IF base = "img" THEN [image EXCEPT !.ver = @ + 1] ELSE image

\* ------------------------------------------------------------------ state
VARIABLES pc,       \* where the program is: constructing, or the line of ViT.forward
          args,     \* the arguments ViT(...) was called with
          model,    \* the constructed module with its parameters, or NoModel
          err,      \* the exception that ended the constructor or the call
          img,      \* the caller's image tensor
          mask,     \* the mask the caller passed
          f,        \* the computation of the current call of ViT.forward
          bi,       \* iterations of Transformer.forward's loop completed
          calls,    \* calls of forward made on the module
          pimg, psize, pout, pdone,      \* ImgPatches.forward as a function
          attn, ax, amask, aout, adone   \* Attention.forward as a function

mvars == <<pc, args, model, err, img, mask, f, bi, calls>>
pvars == <<pimg, psize, pout, pdone>>
avars == <<attn, ax, amask, aout, adone>>
vars == <<mvars, pvars, avars>>

Args(img_size, patch_size, in_ch, num_classes, use_mlp, embed_dim, depth, num_heads, mlp_ratio, drop_rate) ==
    [img_size |-> img_size, patch_size |-> patch_size, in_ch |-> in_ch,
     num_classes |-> num_classes, use_mlp |-> use_mlp, embed_dim |-> embed_dim,
     depth |-> depth, num_heads |-> num_heads, mlp_ratio |-> mlp_ratio,
     drop_rate |-> drop_rate]

MainIdle ==
    /\ pc = "off"
    /\ args = Args(1, 1, 1, 1, TRUE, 1, 0, 1, MlpRatio, 0)
    /\ model = NoModel
    /\ err = ""
    /\ img = Image(<<1, 1, 1, 1>>)
    /\ mask = NoMask
    /\ f = Start
    /\ bi = 0
    /\ calls = 0

DropRates == {0}

PatchIdle ==
    /\ pimg = Labelled(<<1, 1, 1, 1>>)
    /\ psize = 1
    /\ pout = Failed
    /\ pdone = FALSE

AttnIdle ==
    /\ attn = AttentionInit(<<"attn">>, 1, 1, 0, 0)
    /\ ax = Start
    /\ amask = NoMask
    /\ aout = Start
    /\ adone = FALSE

\* ------------------------------------------------- the module's lifecycle
Init ==
    /\ pc = "start"
    /\ args = Args(1, 1, 1, 1, TRUE, 1, 0, 1, MlpRatio, 0)
    /\ model = NoModel
    /\ err = ""
    /\ img = Image(<<1, 1, 1, 1>>)
    /\ mask = NoMask
    /\ f = Start
    /\ bi = 0
    /\ calls = 0
    /\ PatchIdle
    /\ AttnIdle

\* ViT(img_size, patch_size, ...): the constructor runs to its end or raises.
Construct ==
    /\ pc = "start"
    /\ \E img_size \in 1..MaxImg, patch_size \in 0..MaxPatch, in_ch \in 1..MaxCh,
          num_classes \in 1..MaxClasses, use_mlp \in BOOLEAN, embed_dim \in 1..MaxDim,
          depth \in 0..MaxDepth, num_heads \in 1..MaxHeads, drop_rate \in DropRates :
          LET a == Args(img_size, patch_size, in_ch, num_classes, use_mlp, embed_dim,
                        depth, num_heads, MlpRatio, drop_rate)
              r == ViTInit(a)
          IN  /\ args' = a
              /\ model' = r.obj
              /\ err' = r.err
              /\ pc' = IF r.ok THEN "ready" ELSE "ctor_failed"
    /\ UNCHANGED <<img, mask, f, bi, calls, pvars, avars>>

\* Where a statement of forward leaves the program: at the next line, or in the
\* RuntimeError the tensor library raised.
After(t, next) == IF t.ok THEN next ELSE "error"

Raised(t) == IF t.ok THEN "" ELSE "RuntimeError"

\* model(x, mask): lines 126-128.
CallForward ==
    /\ pc = "ready"
    /\ model.exists
    /\ calls < MaxCalls
    /\ \E b \in 1..MaxBatch, c \in 1..MaxCh, h \in 1..MaxImg, w \in 1..MaxSide,
          m \in Masks :
          /\ img' = Image(<<b, c, h, w>>)
          /\ mask' = m
          /\ f' = ForwardEnter(model, Image(<<b, c, h, w>>))
    /\ pc' = After(f', "embed")
    /\ err' = Raised(f')
    /\ bi' = 0
    /\ calls' = calls + 1
    /\ UNCHANGED <<args, model, pvars, avars>>

\* Line 130.
Embed ==
    /\ pc = "embed"
    /\ f' = ForwardEmbed(model, f)
    /\ pc' = After(f', "cat")
    /\ err' = Raised(f')
    /\ UNCHANGED <<args, model, img, mask, bi, calls, pvars, avars>>

\* Line 131.
Cat ==
    /\ pc = "cat"
    /\ f' = ForwardCat(f)
    /\ pc' = After(f', "pos")
    /\ err' = Raised(f')
    /\ UNCHANGED <<args, model, img, mask, bi, calls, pvars, avars>>

\* Line 132: the in-place add writes the storage of its target.
Pos ==
    /\ pc = "pos"
    /\ f' = ForwardPos(model, f)
    /\ pc' = After(f', "blocks")
    /\ err' = Raised(f')
    /\ model' = IF f'.ok THEN WriteModel(model, Written(f')) ELSE model
    /\ img' = IF f'.ok THEN WriteImage(img, Written(f')) ELSE img
    /\ UNCHANGED <<args, mask, bi, calls, pvars, avars>>

\* Lines 94-95: one iteration of Transformer.forward's loop.
BlockStep ==
    /\ pc = "blocks"
    /\ bi < Len(model.transfomer.blocks)
    /\ f' = BlockForward(model.transfomer.blocks[BlockOrder(model.transfomer)[bi + 1]],
                         f, mask)
    /\ bi' = bi + 1
    /\ pc' = After(f', "blocks")
    /\ err' = Raised(f')
    /\ UNCHANGED <<args, model, img, mask, calls, pvars, avars>>

\* Line 96: the loop is over and Transformer.forward returns.
TransformerReturn ==
    /\ pc = "blocks"
    /\ bi = Len(model.transfomer.blocks)
    /\ pc' = "norm"
    /\ UNCHANGED <<args, model, err, img, mask, f, bi, calls, pvars, avars>>

\* Line 135.
Norm ==
    /\ pc = "norm"
    /\ f' = ForwardNorm(model, f)
    /\ pc' = After(f', "head")
    /\ err' = Raised(f')
    /\ UNCHANGED <<args, model, img, mask, bi, calls, pvars, avars>>

\* Lines 136-137: the logits are the top of the tape.
Classify ==
    /\ pc = "head"
    /\ f' = ForwardHead(model, f)
    /\ pc' = After(f', "done")
    /\ err' = Raised(f')
    /\ UNCHANGED <<args, model, img, mask, bi, calls, pvars, avars>>

\* The call is over: its frame is gone, and the caller is done with the image,
\* the mask and the result.
Return ==
    /\ pc \in {"done", "error"}
    /\ pc' = "ready"
    /\ err' = ""
    /\ img' = Image(<<1, 1, 1, 1>>)
    /\ mask' = NoMask
    /\ f' = Start
    /\ bi' = 0
    /\ UNCHANGED <<args, model, calls, pvars, avars>>

Next ==
    \/ Construct
    \/ CallForward
    \/ Embed
    \/ Cat
    \/ Pos
    \/ BlockStep
    \/ TransformerReturn
    \/ Norm
    \/ Classify
    \/ Return

Spec == Init /\ [][Next]_vars

\* ----------------------------------------------------- the lifecycle's claims
InCall == pc \in {"embed", "cat", "pos", "blocks", "norm", "head"}

Returned == pc \in {"done", "error"}

Depth == Len(model.transfomer.blocks)

\* The image has the shape (B, in_ch, img_size, img_size) the module was built for.
ImageFits ==
    /\ img.shape[2] = args.in_ch
    /\ img.shape[3] = args.img_size
    /\ img.shape[4] = args.img_size

\* C1: with img_size % patch_size # 0 the constructor raises ValueError and leaves
\* no module, so forward is never called; with img_size % patch_size = 0 the test
\* does not raise.
C1_SizeCheck ==
    (pc # "start" /\ args.patch_size # 0) =>
        /\ (args.img_size % args.patch_size # 0) =>
              (pc = "ctor_failed" /\ err = "ValueError" /\ ~model.exists /\ calls = 0)
        /\ (args.img_size % args.patch_size = 0) =>
              (model.exists /\ err # "ValueError")

C1_Witness ==
    /\ pc = "ctor_failed"
    /\ err = "ValueError"
    /\ args.img_size = 3
    /\ args.patch_size = 2

\* C2: with embed_dim % num_heads # 0 the constructor fails, so that no module
\* exists and no forward computation starts.
C2_HeadsCheckedAtConstruction ==
    (pc # "start" /\ args.embed_dim % args.num_heads # 0) =>
        (pc = "ctor_failed" /\ ~model.exists)

\* C5: a call with a non-null mask ends as the call with mask None does: the same
\* tensors computed, the same logits or the same failure, and every Attention
\* that ran saw the mask (it printed its notice).
C5_MaskNoEffect ==
    Returned =>
        LET r == ViTForward(model, img, NoMask)
        IN  /\ f.ok = r.ok
            /\ f.tape = r.tape
            /\ f.printed = IF mask = NoMask THEN 0
                           ELSE Cardinality(Made(f, "softmax"))

C5_Witness ==
    /\ pc = "done"
    /\ mask # NoMask
    /\ Depth = 2
    /\ f.printed = 2

\* C6: for an image of shape (B, C, S, S), with D divisible by the head count,
\* the call does not fail; the sequence built at line 131 has (S/P)^2 + 1 rows
\* per image, row 0 the class embedding and row k the embedding of patch k - 1;
\* line 135 takes row 0 only; the logits have shape (B, K).
C6_TokensAndLogits ==
    ((InCall \/ Returned) /\ ImageFits /\ args.embed_dim % args.num_heads = 0) =>
        LET b == img.shape[1]
            n == (args.img_size \div args.patch_size) * (args.img_size \div args.patch_size)
            d == args.embed_dim
        IN  /\ pc # "error"
            /\ pc \in {"pos", "blocks", "norm", "head", "done"} =>
                  /\ f.tape[5].op = "cat"
                  /\ f.tape[5].shape = <<b, n + 1, d>>
                  /\ Len(f.tape[5].data) = b * (n + 1)
                  /\ \A i \in 0..(b - 1) :
                        /\ f.tape[5].data[i * (n + 1) + 1]
                              = [src |-> <<"cls_emb">>, vec |-> <<>>]
                        /\ \A k \in 1..n :
                              /\ f.tape[5].data[i * (n + 1) + k + 1]
                                    = f.tape[4].data[i * n + k]
                              /\ f.tape[5].data[i * (n + 1) + k + 1].src
                                    = <<"patch_embed">>
            /\ pc \in {"head", "done"} =>
                  /\ Cardinality(Made(f, "select")) = 1
                  /\ \A i \in Made(f, "select") :
                        /\ f.tape[i].at = 0
                        /\ f.tape[i].shape = <<b, d>>
                        /\ f.tape[i + 1].op = "layer_norm"
                        /\ f.tape[i + 1].p = <<"norm">>
            /\ pc = "done" => ShapeAt(f, -1) = <<b, args.num_classes>>

C6_Witness ==
    /\ pc = "done"
    /\ ImageFits
    /\ img.shape[1] = 2
    /\ args.img_size = 2
    /\ args.patch_size = 1
    /\ Depth = 2
    /\ ~args.use_mlp
    /\ ShapeAt(f, -1) = <<2, args.num_classes>>

\* C7: a call with an image whose height or width is not img_size, or whose
\* channel count is not in_ch, returns no logits.
C7_MismatchRaises == pc = "done" => ImageFits

\* C8: forward writes no shared state: the module's parameters are as the
\* constructor left them and the caller's image is as it was passed, during and
\* after every call, and what a call computes is what the first call on a newly
\* constructed module computes for the same image and mask.
C8_NoSharedWrites ==
    model.exists =>
        /\ model = ViTInit(args).obj
        /\ img = Image(img.shape)
        /\ Returned => f = ViTForward(ViTInit(args).obj, Image(img.shape), mask)

C8_Witness ==
    /\ pc = "done"
    /\ calls = 2
    /\ Depth = 2
    /\ f.tape[6].op = "iadd"

\* The tape positions of the first statement of each Block.forward that ran.
BlockStarts ==
    {i \in Made(f, "layer_norm") : Len(f.tape[i].p) = 3 /\ f.tape[i].p[3] = "ln1"}

\* C9: when Transformer.forward returns it has run each of its depth blocks once,
\* in construction order, block 0 on its input (the tensor of line 132) and block
\* k on the output of block k - 1, every Attention was handed the caller's mask,
\* and the result has the shape of the input; with depth 0 the result is the
\* input.  It fails only when embed_dim is not divisible by num_heads.
C9_BlocksInOrder ==
    /\ pc = "norm" =>
          /\ bi = Depth
          /\ Cardinality(BlockStarts) = Depth
          /\ \A i \in BlockStarts :
                LET k == f.tape[i].p[2]
                IN  /\ Cardinality({j \in BlockStarts : j < i}) = k
                    /\ f.tape[i].args = <<i - 1>>
                    /\ k = 0 => i - 1 = 6
                    /\ k > 0 => f.tape[i - 1].op = "add"
          /\ f.tape[Top(f)].op = IF Depth = 0 THEN "iadd" ELSE "add"
          /\ Depth = 0 => Top(f) = 6
          /\ ShapeAt(f, -1) = ShapeAt(f, 6)
          /\ f.printed = IF mask = NoMask THEN 0 ELSE Depth
    /\ (pc = "error" /\ Top(f) >= 6) => args.embed_dim % args.num_heads # 0

C9_Witness ==
    /\ pc = "norm"
    /\ Depth = 2
    /\ mask # NoMask
    /\ f.printed = 2
    /\ img.shape[1] = 2

\* --------------------------------------- ImgPatches.forward as a function
PatchShapes ==
    {<<b, c, h, w>> : b \in 1..MaxBatch, c \in 1..MaxCh,
                      h \in 1..MaxSide, w \in 1..MaxSide}
        \cup {<<1, 3, 32, 32>>}

PatchInit ==
    /\ pimg \in {Labelled(s) : s \in PatchShapes}
    /\ psize \in IF pimg.shape[3] = 32 THEN {16} ELSE 1..MaxPatch
    /\ pout = Failed
    /\ pdone = FALSE
    /\ AttnIdle
    /\ MainIdle

PatchCall ==
    /\ ~pdone
    /\ pout' = ImgPatchesForward(psize, pimg)
    /\ pdone' = TRUE
    /\ UNCHANGED <<pimg, psize, avars, mvars>>

SpecPatches == PatchInit /\ [][PatchCall]_vars

\* The elements of patch k (0-based) of batch item b (0-based) of a (B, n, m) tensor.
PatchElems(t, b, k) ==
    {t.data[Ravel(<<b, k, e>>, t.shape) + 1] : e \in 0..(t.shape[3] - 1)}

\* The labels of block (i, j) of batch item b of the image: every channel, every
\* row and column of the block.
BlockElems(image, p, b, i, j) ==
    {Ravel(<<b, c, i * p + dh, j * p + dw>>, image.shape) :
        c \in 0..(image.shape[2] - 1), dh \in 0..(p - 1), dw \in 0..(p - 1)}

PatchDivisible == pimg.shape[3] % psize = 0 /\ pimg.shape[4] % psize = 0

\* C3: with H and W divisible by P, patch i*(W/P)+j of batch item b holds exactly
\* the C*P*P values of block (i, j) of that item, all channels included.
C3_PatchesHoldTheirBlock ==
    (pdone /\ PatchDivisible) =>
        /\ pout.ok
        /\ \A b \in 0..(pimg.shape[1] - 1),
              i \in 0..(pimg.shape[3] \div psize - 1),
              j \in 0..(pimg.shape[4] \div psize - 1) :
                PatchElems(pout, b, i * (pimg.shape[4] \div psize) + j)
                    = BlockElems(pimg, psize, b, i, j)

\* C4: with H and W divisible by P the result has shape (B, (H/P)*(W/P), C*P*P);
\* a (1, 3, 32, 32) image with P = 16 gives (1, 4, 768).
C4_PatchShape ==
    (pdone /\ PatchDivisible) =>
        /\ pout.ok
        /\ pout.shape = <<pimg.shape[1],
                          (pimg.shape[3] \div psize) * (pimg.shape[4] \div psize),
                          pimg.shape[2] * psize * psize>>
        /\ (pimg.shape = <<1, 3, 32, 32>> /\ psize = 16) => pout.shape = <<1, 4, 768>>

C4_Witness ==
    /\ pdone
    /\ pimg.shape = <<1, 3, 32, 32>>
    /\ psize = 16
    /\ pout.shape = <<1, 4, 768>>

\* -------------------------------------- Attention.forward as a function
AttnInit ==
    /\ \E dim \in 1..MaxAttnDim, num_heads \in 1..MaxAttnHeads, p \in DropRates :
          attn = AttentionInit(<<"attn">>, dim, num_heads, p, p)
    /\ \E b \in 1..MaxBatch, n \in 1..MaxTokens :
          ax = Input(<<b, n, attn.qkv.in_features>>)
    /\ amask \in Masks
    /\ aout = Start
    /\ adone = FALSE
    /\ PatchIdle
    /\ MainIdle

AttnCall ==
    /\ ~adone
    /\ aout' = AttentionForward(attn, ax, amask)
    /\ adone' = TRUE
    /\ UNCHANGED <<attn, ax, amask, pvars, mvars>>

SpecAttention == AttnInit /\ [][AttnCall]_vars

AttnB == ShapeAt(ax, 1)[1]
AttnN == ShapeAt(ax, 1)[2]
AttnD == ShapeAt(ax, 1)[3]
AttnHeadDim == AttnD \div attn.num_heads

\* C10: with D divisible by Hn, Q, K and V each have shape (B, Hn, N, D/Hn), the
\* scores have shape (B, Hn, N, N), and the output has shape (B, N, D); nothing is
\* raised.
C10_AttentionShapes ==
    (adone /\ AttnD % attn.num_heads = 0) =>
        /\ aout.ok
        /\ Cardinality(Made(aout, "unbind")) = 3
        /\ \A i \in Made(aout, "unbind") :
              ShapeAt(aout, i) = <<AttnB, attn.num_heads, AttnN, AttnHeadDim>>
        /\ Cardinality(Made(aout, "mul")) = 1
        /\ \A i \in Made(aout, "mul") \cup Made(aout, "softmax") :
              ShapeAt(aout, i) = <<AttnB, attn.num_heads, AttnN, AttnN>>
        /\ ShapeAt(aout, Top(aout)) = <<AttnB, AttnN, AttnD>>

C10_Witness ==
    /\ adone
    /\ aout.ok
    /\ attn.num_heads = 2
    /\ AttnD = 4
    /\ AttnN = 3
    /\ ShapeAt(aout, Top(aout)) = <<AttnB, 3, 4>>

====
